---- MODULE Spec2Model ----
(***************************************************************************)
(* Model of app.py: an interactive command-line client of a catalog        *)
(* service.  Three specifications are given over one set of variables:     *)
(*   Spec        the module-level menu loop and the seven API functions;   *)
(*   SpecFactory APIRequestFactory.create_request and the send() of the    *)
(*               four request classes, called directly;                    *)
(*   SpecObs     ObservableCategory (attach / detach / notify).            *)
(*                                                                         *)
(* Text is modelled as follows.  A URL is the sequence of its pieces, with *)
(* every "/" separator a piece of its own, so that string concatenation is *)
(* sequence concatenation.  A printed line is the sequence of the          *)
(* non-empty pieces the f-string is formatted from; print() alone prints   *)
(* the empty line <<>>.  Python's None is the record None, a present value *)
(* x is Some(x).                                                           *)
(*                                                                         *)
(* StoreClient and CategoryDecorator are not modelled: the loop constructs *)
(* one StoreClient and never uses it, and nothing constructs a             *)
(* CategoryDecorator.                                                      *)
(***************************************************************************)
EXTENDS Integers, Sequences, FiniteSets, TLC

VARIABLES
    pc,         \* position of the module-level loop: "menu", "exited", "crashed"
    choice,     \* the line read at "Enter your choice: " in the last iteration, None before the first
    prompts,    \* the input() prompts issued after the menu prompt, in order
    inputs,     \* the lines the operator typed at those prompts, in order
    calls,      \* the transport calls (requests.get/post/patch/delete) made
    response,   \* the response the transport returned, if it returned one
    decoded,    \* TRUE iff json.loads was called on the response content
    presented,  \* the decoded entities an adapter displayed completely
    out,        \* the lines printed after the menu prompt
    exc,        \* the exception that left the loop, "none" otherwise
    request,    \* SpecFactory: the object create_request returned
    sent,       \* SpecFactory: the transport call its send() made
    observers,  \* SpecObs: ObservableCategory.observers
    live,       \* SpecObs: the attachments in force, each [n: number of its attach call, l: listener]
    nattach,    \* SpecObs: number of attach calls made
    updates,    \* SpecObs: the update() calls the last notify made, in order
    obsCall,    \* SpecObs: the last call made, [op, arg], None before the first
    obsExc      \* SpecObs: the exception the last call raised, "none" otherwise

shellVars == <<pc, choice, prompts, inputs, calls, response, decoded, presented, out, exc>>
factoryVars == <<request, sent>>
obsVars == <<observers, live, nattach, updates, obsCall, obsExc>>
vars == <<pc, choice, prompts, inputs, calls, response, decoded, presented, out, exc,
          request, sent, observers, live, nattach, updates, obsCall, obsExc>>

-----------------------------------------------------------------------------
(* Bounds *)

MaxRecords == 2      \* longest JSON array in a response body
MaxObservers == 3    \* longest observers list
MaxAttach == 4       \* attach calls in one run

-----------------------------------------------------------------------------
(* Python values *)

None == [some |-> FALSE]
Some(x) == [some |-> TRUE, v |-> x]

\* A printed line: the formatted pieces, empty strings contributing nothing.
Line(pieces) == SelectSeq(pieces, LAMBDA p : p # "")
Blank == <<>>

BASE_URL == <<"http://localhost:5000", "/">>

-----------------------------------------------------------------------------
(* Input domains *)

CategoryIds == {"3", "x"}
Titles == {"Books"}
Descriptions == {"Y"}
Names == {"Pen"}
PriceLines == {"10", "abc", ""}
MenuLines == {"0", "1", "2", "3", "4", "5", "6", "7", "8", "", "1 ", "exit"}

\* float(s) on the price lines above: a line that is no number raises
\* ValueError, a number is returned as a float.
float(s) ==
    CASE s = "10" -> [raised |-> FALSE, value |-> [float |-> 10]]
      [] OTHER -> [raised |-> TRUE]

\* Status codes http.client can deliver, around each class boundary.
StatusCodes == {101, 200, 299, 304, 400, 404, 599, 600}

\* Decoded JSON documents.  A body that is no JSON document is Invalid.
CategoryDicts ==
    {[id |-> 7, title |-> "X", description |-> "Y"],
     [id |-> 3, title |-> "Books", description |-> ""],
     [id |-> 7, title |-> "X"]}
ProductDicts ==
    {[id |-> 1, name |-> "Pen", price |-> 10, description |-> "Y"],
     [id |-> 2, name |-> "Ink", price |-> 7, description |-> "Z"],
     [id |-> 1, name |-> "Pen", price |-> 10]}
Dicts == CategoryDicts \cup ProductDicts
Object(d) == [t |-> "object", obj |-> d]
Array(s) == [t |-> "array", items |-> s]
Invalid == [t |-> "invalid"]
Number == [t |-> "number"]
SeqsUpTo(S, n) == UNION {[1..k -> S] : k \in 0..n}
JsonValues ==
    {Number}
    \cup {Object(d) : d \in Dicts}
    \cup {Array(s) : s \in SeqsUpTo({Object(d) : d \in CategoryDicts}, MaxRecords)}
    \cup {Array(s) : s \in SeqsUpTo({Object(d) : d \in ProductDicts}, MaxRecords)}
Bodies == {Invalid} \cup JsonValues

\* What one transport call can do: raise, or return a response.  Every
\* status code comes with a few bodies, and one status code of the 2xx class
\* and one of the 3xx class come with every body.
ProbeBodies ==
    {Invalid,
     Object([id |-> 7, title |-> "X", description |-> "Y"]),
     Array(<<Object([id |-> 1, name |-> "Pen", price |-> 10, description |-> "Y"])>>)}
EveryBodyStatusCodes == {200, 304}
Response(s, b) == [raised |-> FALSE, status_code |-> s, content |-> b]
TransportOutcomes ==
    {[raised |-> TRUE]}
    \cup {Response(s, b) : s \in StatusCodes, b \in ProbeBodies}
    \cup {Response(s, b) : s \in EveryBodyStatusCodes, b \in Bodies}

-----------------------------------------------------------------------------
(* requests / json library behaviour the code relies on *)

\* requests.Response.ok: raise_for_status() raises for 400 <= status < 600.
ok(resp) == ~(400 <= resp.status_code /\ resp.status_code < 600)

\* json.loads(content)
json_loads(content) ==
    IF content.t = "invalid" THEN [raised |-> TRUE] ELSE [raised |-> FALSE, value |-> content]

-----------------------------------------------------------------------------
(* Factory Method: APIRequestFactory and the request classes *)

GetRequest(url) == [class |-> "GetRequest", url |-> url]
PostRequest(url, data) == [class |-> "PostRequest", url |-> url, data |-> data]
PatchRequest(url, data) == [class |-> "PatchRequest", url |-> url, data |-> data]
DeleteRequest(url) == [class |-> "DeleteRequest", url |-> url]
NoRequest == [class |-> "NoneType"]

create_request_swapped(url, method, data) ==
    CASE method = "GET" -> GetRequest(url)
      [] method = "POST" -> PatchRequest(url, data)
      [] method = "PATCH" -> PostRequest(url, data)
      [] method = "DELETE" -> DeleteRequest(url)
      [] OTHER -> NoRequest

create_request(url, method, data) ==
    CASE method = "GET" -> GetRequest(url)
      [] method = "POST" -> PostRequest(url, data)
      [] method = "PATCH" -> PatchRequest(url, data)
      [] method = "DELETE" -> DeleteRequest(url)
      [] OTHER -> NoRequest

\* The transport call request.send() makes.
send(req) ==
    CASE req.class = "GetRequest" -> [method |-> "GET", url |-> req.url, json |-> None]
      [] req.class = "PostRequest" -> [method |-> "POST", url |-> req.url, json |-> req.data]
      [] req.class = "PatchRequest" -> [method |-> "PATCH", url |-> req.url, json |-> req.data]
      [] req.class = "DeleteRequest" -> [method |-> "DELETE", url |-> req.url, json |-> None]

-----------------------------------------------------------------------------
(* Adapters *)

Displayed(lines, shown, e) == [out |-> lines, presented |-> shown, exc |-> e]

CategoryAdapter_display(category) ==
    IF category.t # "object" THEN Displayed(<<>>, <<>>, "TypeError")
    ELSE LET c == category.obj IN
         IF ~({"title", "id"} \subseteq DOMAIN c) THEN Displayed(<<>>, <<>>, "KeyError")
         ELSE LET first == Line(<<c.title, " (ID: ", ToString(c.id), ")">>) IN
              IF "description" \notin DOMAIN c THEN Displayed(<<first>>, <<>>, "KeyError")
              ELSE Displayed(<<first, Line(<<c.description>>)>>, <<category>>, "none")

ProductAdapter_display(product) ==
    IF product.t # "object" THEN Displayed(<<>>, <<>>, "TypeError")
    ELSE LET p == product.obj IN
         IF ~({"name", "id", "price"} \subseteq DOMAIN p) THEN Displayed(<<>>, <<>>, "KeyError")
         ELSE LET first == Line(<<p.name, " (ID: ", ToString(p.id), ", Price: ",
                                   ToString(p.price), ")">>) IN
              IF "description" \notin DOMAIN p THEN Displayed(<<first>>, <<>>, "KeyError")
              ELSE Displayed(<<first, Line(<<p.description>>)>>, <<product>>, "none")

\* for x in xs: adapter.display(); print()
RECURSIVE category_loop(_)
category_loop(xs) ==
    IF xs = <<>> THEN Displayed(<<>>, <<>>, "none")
    ELSE LET d == CategoryAdapter_display(Head(xs)) IN
         IF d.exc # "none" THEN d
         ELSE LET r == category_loop(Tail(xs)) IN
              Displayed(d.out \o <<Blank>> \o r.out, d.presented \o r.presented, r.exc)

\* the loop with the print() after each display left out
RECURSIVE product_loop_noblank(_)
product_loop_noblank(xs) ==
    IF xs = <<>> THEN Displayed(<<>>, <<>>, "none")
    ELSE LET d == ProductAdapter_display(Head(xs)) IN
         IF d.exc # "none" THEN d
         ELSE LET r == product_loop_noblank(Tail(xs)) IN
              Displayed(d.out \o r.out, d.presented \o r.presented, r.exc)

RECURSIVE product_loop(_)
product_loop(xs) ==
    IF xs = <<>> THEN Displayed(<<>>, <<>>, "none")
    ELSE LET d == ProductAdapter_display(Head(xs)) IN
         IF d.exc # "none" THEN d
         ELSE LET r == product_loop(Tail(xs)) IN
              Displayed(d.out \o <<Blank>> \o r.out, d.presented \o r.presented, r.exc)

-----------------------------------------------------------------------------
(* API functions.  Each takes the operator's values and the outcome t of  *)
(* the one transport call, and yields what the call did.                   *)

Result(call, resp, dec, shown, lines, e) ==
    [calls |-> <<call>>, response |-> resp, decoded |-> dec, presented |-> shown,
     out |-> lines, exc |-> e]

\* requests raised inside request.send(): nothing after it runs.
TransportFailed(call) == Result(call, None, FALSE, <<>>, <<>>, "ConnectionError")

\* print(f"{text}{response.status_code}")
ErrorLine(text, resp) == Line(<<text, ToString(resp.status_code)>>)

\* CategoryListStrategy.list_categories, reached through CategoryStrategyContext
strategy_list_categories(req, t) ==
    LET call == send(req) IN
    IF t.raised THEN TransportFailed(call)
    ELSE IF ok(t) THEN
        LET categories == json_loads(t.content) IN
        IF categories.raised THEN Result(call, Some(t), TRUE, <<>>, <<>>, "JSONDecodeError")
        ELSE IF categories.value.t # "array" THEN Result(call, Some(t), TRUE, <<>>, <<>>, "TypeError")
        ELSE LET d == category_loop(categories.value.items) IN
             Result(call, Some(t), TRUE, d.presented, d.out, d.exc)
    ELSE Result(call, Some(t), FALSE, <<>>, <<ErrorLine("Error fetching categories: ", t)>>, "none")

list_categories(t) ==
    LET url == BASE_URL \o <<"/", "categories">>
        req == create_request(url, "GET", None)
    IN  strategy_list_categories(req, t)

show_category(category_id, t) ==
    LET url == BASE_URL \o <<"/", "categories", "/", category_id>>
        req == create_request(url, "GET", None)
        call == send(req)
    IN  IF t.raised THEN TransportFailed(call)
        ELSE IF ok(t) THEN
            LET category == json_loads(t.content) IN
            IF category.raised THEN Result(call, Some(t), TRUE, <<>>, <<>>, "JSONDecodeError")
            ELSE LET d == CategoryAdapter_display(category.value) IN
                 Result(call, Some(t), TRUE, d.presented, d.out, d.exc)
        ELSE Result(call, Some(t), FALSE, <<>>, <<ErrorLine("Error fetching category: ", t)>>, "none")

\* print(f"{text}{entity['id']}") on a decoded body
CreatedLine(text, value) ==
    IF value.t # "object" THEN [out |-> <<>>, exc |-> "TypeError"]
    ELSE IF "id" \notin DOMAIN value.obj THEN [out |-> <<>>, exc |-> "KeyError"]
    ELSE [out |-> <<Line(<<text, ToString(value.obj.id)>>)>>, exc |-> "none"]

create_category(title, description, t) ==
    LET url == BASE_URL \o <<"/", "categories">>
        data == [title |-> title, description |-> description]
        req == create_request(url, "POST", Some(data))
        call == send(req)
    IN  IF t.raised THEN TransportFailed(call)
        ELSE IF ok(t) THEN
            LET category == json_loads(t.content) IN
            IF category.raised THEN Result(call, Some(t), TRUE, <<>>, <<>>, "JSONDecodeError")
            ELSE LET l == CreatedLine("Category created with ID: ", category.value) IN
                 Result(call, Some(t), TRUE, <<>>, l.out, l.exc)
        ELSE Result(call, Some(t), FALSE, <<>>, <<ErrorLine("Error creating category: ", t)>>, "none")

delete_category(category_id, t) ==
    LET url == BASE_URL \o <<"/", "categories", "/", category_id>>
        req == create_request(url, "DELETE", None)
        call == send(req)
    IN  IF t.raised THEN TransportFailed(call)
        ELSE IF ok(t) THEN Result(call, Some(t), FALSE, <<>>, <<Line(<<"Category deleted">>)>>, "none")
        ELSE Result(call, Some(t), FALSE, <<>>, <<ErrorLine("Error deleting category: ", t)>>, "none")

change_category_title(category_id, new_title, t) ==
    LET url == BASE_URL \o <<"/", "categories", "/", category_id>>
        data == [title |-> new_title]
        req == create_request(url, "PATCH", Some(data))
        call == send(req)
    IN  IF t.raised THEN TransportFailed(call)
        ELSE IF ok(t) THEN Result(call, Some(t), FALSE, <<>>, <<Line(<<"Category title updated">>)>>, "none")
        ELSE Result(call, Some(t), FALSE, <<>>, <<ErrorLine("Error updating category title: ", t)>>, "none")

create_product(category_id, name, price, description, t) ==
    LET url == BASE_URL \o <<"/", "categories", "/", category_id, "/", "products">>
        data == [name |-> name, price |-> price, description |-> description]
        req == create_request(url, "POST", Some(data))
        call == send(req)
    IN  IF t.raised THEN TransportFailed(call)
        ELSE IF ok(t) THEN
            LET product == json_loads(t.content) IN
            IF product.raised THEN Result(call, Some(t), TRUE, <<>>, <<>>, "JSONDecodeError")
            ELSE LET l == CreatedLine("Product created with ID: ", product.value) IN
                 Result(call, Some(t), TRUE, <<>>, l.out, l.exc)
        ELSE Result(call, Some(t), FALSE, <<>>, <<ErrorLine("Error creating product: ", t)>>, "none")

list_products(category_id, t) ==
    LET url == BASE_URL \o <<"/", "categories", "/", category_id, "/", "products">>
        req == create_request(url, "GET", None)
        call == send(req)
    IN  IF t.raised THEN TransportFailed(call)
        ELSE IF ok(t) THEN
            LET products == json_loads(t.content) IN
            IF products.raised THEN Result(call, Some(t), TRUE, <<>>, <<>>, "JSONDecodeError")
            ELSE IF products.value.t # "array" THEN Result(call, Some(t), TRUE, <<>>, <<>>, "TypeError")
            ELSE LET d == product_loop(products.value.items) IN
                 Result(call, Some(t), TRUE, d.presented, d.out, d.exc)
        ELSE Result(call, Some(t), FALSE, <<>>, <<ErrorLine("Error fetching products: ", t)>>, "none")

-----------------------------------------------------------------------------
(* The module-level loop: one action per branch of the if/elif chain, each *)
(* a whole iteration from the menu prompt to the next one.                 *)

\* The iteration called an API function: its effects, and where the loop is.
Called(c, asked, typed, r) ==
    /\ choice' = Some(c)
    /\ prompts' = asked
    /\ inputs' = typed
    /\ calls' = r.calls
    /\ response' = r.response
    /\ decoded' = r.decoded
    /\ presented' = r.presented
    /\ out' = r.out
    /\ exc' = r.exc
    /\ pc' = IF r.exc = "none" THEN "menu" ELSE "crashed"
    /\ UNCHANGED <<factoryVars, obsVars>>

\* The iteration called no API function.
NotCalled(c, asked, typed, lines, e, where) ==
    /\ choice' = Some(c)
    /\ prompts' = asked
    /\ inputs' = typed
    /\ calls' = <<>>
    /\ response' = None
    /\ decoded' = FALSE
    /\ presented' = <<>>
    /\ out' = lines
    /\ exc' = e
    /\ pc' = where
    /\ UNCHANGED <<factoryVars, obsVars>>

Choice1 ==
    /\ pc = "menu"
    /\ \E t \in TransportOutcomes : Called("1", <<>>, <<>>, list_categories(t))

Choice2 ==
    /\ pc = "menu"
    /\ \E category_id \in CategoryIds, t \in TransportOutcomes :
          Called("2", <<"Enter category ID: ">>, <<category_id>>, show_category(category_id, t))

Choice3 ==
    /\ pc = "menu"
    /\ \E title \in Titles, description \in Descriptions, t \in TransportOutcomes :
          Called("3", <<"Enter category title: ", "Enter category description: ">>,
                 <<title, description>>, create_category(title, description, t))

Choice4 ==
    /\ pc = "menu"
    /\ \E category_id \in CategoryIds, t \in TransportOutcomes :
          Called("4", <<"Enter category ID: ">>, <<category_id>>, delete_category(category_id, t))

Choice5 ==
    /\ pc = "menu"
    /\ \E category_id \in CategoryIds, new_title \in Titles, t \in TransportOutcomes :
          Called("5", <<"Enter category ID: ", "Enter new category title: ">>,
                 <<category_id, new_title>>, change_category_title(category_id, new_title, t))

\* price = float(input(...)) raises ValueError before the description is asked for.
Choice6 ==
    /\ pc = "menu"
    /\ \E category_id \in CategoryIds, name \in Names, line \in PriceLines :
          LET price == float(line) IN
          IF price.raised
          THEN NotCalled("6", <<"Enter category ID: ", "Enter product name: ", "Enter product price: ">>,
                         <<category_id, name, line>>, <<>>, "ValueError", "crashed")
          ELSE \E description \in Descriptions, t \in TransportOutcomes :
                  Called("6", <<"Enter category ID: ", "Enter product name: ",
                                "Enter product price: ", "Enter product description: ">>,
                         <<category_id, name, line, description>>,
                         create_product(category_id, name, price.value, description, t))

Choice7 ==
    /\ pc = "menu"
    /\ \E category_id \in CategoryIds, t \in TransportOutcomes :
          Called("7", <<"Enter category ID: ">>, <<category_id>>, list_products(category_id, t))

Choice0 ==
    /\ pc = "menu"
    /\ NotCalled("0", <<>>, <<>>, <<>>, "none", "exited")

\* the else branch taken for an exit
InvalidChoice_exits ==
    /\ pc = "menu"
    /\ \E c \in MenuLines \ {"0", "1", "2", "3", "4", "5", "6", "7"} :
          NotCalled(c, <<>>, <<>>, <<>>, "none", "exited")

InvalidChoice ==
    /\ pc = "menu"
    /\ \E c \in MenuLines \ {"0", "1", "2", "3", "4", "5", "6", "7"} :
          NotCalled(c, <<>>, <<>>, <<Line(<<"Invalid choice. Please try again.">>)>>, "none", "menu")

Init ==
    /\ pc = "menu"
    /\ choice = None
    /\ prompts = <<>>
    /\ inputs = <<>>
    /\ calls = <<>>
    /\ response = None
    /\ decoded = FALSE
    /\ presented = <<>>
    /\ out = <<>>
    /\ exc = "none"
    /\ request = None
    /\ sent = None
    /\ observers = <<>>
    /\ live = {}
    /\ nattach = 0
    /\ updates = <<>>
    /\ obsCall = None
    /\ obsExc = "none"

Next ==
    \/ Choice1
    \/ Choice2
    \/ Choice3
    \/ Choice4
    \/ Choice5
    \/ Choice6
    \/ Choice7
    \/ Choice0
    \/ InvalidChoice

Spec == Init /\ [][Next]_vars

-----------------------------------------------------------------------------
(* SpecFactory: create_request and send() called directly *)

FactoryUrls == {BASE_URL \o <<"/", "categories">>,
                BASE_URL \o <<"/", "categories", "/", "3">>,
                BASE_URL \o <<"/", "categories", "/", "3", "/", "products">>}
FactoryMethods == {"GET", "POST", "PATCH", "DELETE", "PUT"}
FactoryData == {None,
                Some([title |-> "Books"]),
                Some([title |-> "Books", description |-> "Y"]),
                Some([name |-> "Pen", price |-> [float |-> 10], description |-> "Y"])}

\* request = APIRequestFactory.create_request(url, method, data)
CreateRequest ==
    /\ \E url \in FactoryUrls, method \in FactoryMethods, data \in FactoryData :
          request' = Some([url |-> url, method |-> method, data |-> data,
                           obj |-> create_request(url, method, data)])
    /\ sent' = None
    /\ UNCHANGED <<shellVars, obsVars>>

\* request.send(); on the None an unsupported method yields, AttributeError.
SendRequest ==
    /\ request.some
    /\ sent = None
    /\ sent' = IF request.v.obj = NoRequest
               THEN Some([raised |-> "AttributeError"])
               ELSE Some([raised |-> "none", call |-> send(request.v.obj)])
    /\ UNCHANGED <<request, shellVars, obsVars>>

NextFactory ==
    \/ CreateRequest
    \/ SendRequest

SpecFactory == Init /\ [][NextFactory]_vars

-----------------------------------------------------------------------------
(* SpecObs: ObservableCategory with CategoryObserver listeners *)

Listeners == {"a", "b"}
NotifyEntities == CategoryDicts \cup {[id |-> 7, description |-> "Y"]}

Range(f) == {f[i] : i \in DOMAIN f}

\* list.append
attach_front(obs, o) == <<o>> \o obs

attach(obs, o) == Append(obs, o)

\* list.remove: drops the first element equal to o, ValueError if there is none
detach_last(obs, o) ==
    IF o \in Range(obs)
    THEN LET i == CHOOSE k \in 1..Len(obs) : obs[k] = o /\ \A j \in 1..(k - 1) : obs[j] # o
         IN  [raised |-> FALSE, list |-> SubSeq(obs, 1, i - 1) \o SubSeq(obs, i + 1, Len(obs))]
    ELSE [raised |-> FALSE, list |-> SubSeq(obs, 1, Len(obs) - 1)]

detach(obs, o) ==
    IF o \in Range(obs)
    THEN LET i == CHOOSE k \in 1..Len(obs) : obs[k] = o /\ \A j \in 1..(k - 1) : obs[j] # o
         IN  [raised |-> FALSE, list |-> SubSeq(obs, 1, i - 1) \o SubSeq(obs, i + 1, Len(obs))]
    ELSE [raised |-> TRUE, list |-> obs]

\* CategoryObserver.update: print(f"Category updated: {category['title']}")
update(observer, category) ==
    IF "title" \in DOMAIN category
    THEN [observer |-> observer, category |-> category, raised |-> FALSE,
          printed |-> Line(<<"Category updated: ", category.title>>)]
    ELSE [observer |-> observer, category |-> category, raised |-> TRUE, printed |-> Blank]

\* for observer in self.observers: observer.update(category)
RECURSIVE notify(_, _)
notify(obs, category) ==
    IF obs = <<>> THEN <<>>
    ELSE LET u == update(Head(obs), category) IN
         IF u.raised THEN <<u>> ELSE <<u>> \o notify(Tail(obs), category)

Attach ==
    /\ nattach < MaxAttach
    /\ Len(observers) < MaxObservers
    /\ \E o \in Listeners :
          /\ observers' = attach(observers, o)
          /\ live' = live \cup {[n |-> nattach + 1, l |-> o]}
          /\ obsCall' = Some([op |-> "attach", arg |-> o])
    /\ nattach' = nattach + 1
    /\ obsExc' = "none"
    /\ UNCHANGED <<updates, shellVars, factoryVars>>

\* A detach that succeeds ends the listener's oldest attachment in force.
Detach ==
    /\ \E o \in Listeners :
          LET d == detach(observers, o)
              mine == {a \in live : a.l = o}
          IN  /\ observers' = d.list
              /\ obsCall' = Some([op |-> "detach", arg |-> o])
              /\ obsExc' = IF d.raised THEN "ValueError" ELSE "none"
              /\ live' = IF mine = {} THEN live
                         ELSE live \ {CHOOSE a \in mine : \A b \in mine : a.n <= b.n}
    /\ UNCHANGED <<nattach, updates, shellVars, factoryVars>>

Notify ==
    /\ \E category \in NotifyEntities :
          /\ updates' = notify(observers, category)
          /\ obsCall' = Some([op |-> "notify", arg |-> category])
          /\ obsExc' = IF \E i \in 1..Len(updates') : updates'[i].raised THEN "KeyError" ELSE "none"
    /\ UNCHANGED <<observers, live, nattach, shellVars, factoryVars>>

NextObs ==
    \/ Attach
    \/ Detach
    \/ Notify

SpecObs == Init /\ [][NextObs]_vars

-----------------------------------------------------------------------------
(* Vocabulary of the specification, used to state the claims *)

\* "any 2xx status is success; anything else is failure"
Success(status) == status \in 200..299

ErrorTexts == {"Error fetching categories: ", "Error fetching category: ",
               "Error creating category: ", "Error deleting category: ",
               "Error updating category title: ", "Error creating product: ",
               "Error fetching products: "}
IsErrorLine(line, status) ==
    Len(line) = 2 /\ line[1] \in ErrorTexts /\ line[2] = ToString(status)
PrintedErrorLine(status) == \E i \in 1..Len(out) : IsErrorLine(out[i], status)
OnlyErrorLine(status) == Len(out) = 1 /\ IsErrorLine(out[1], status)

MenuChoices == {"0", "1", "2", "3", "4", "5", "6", "7"}

\* The operations table: method, path and payload of the operation at each
\* menu position, from the values typed at its prompts.
TableMethod(c) ==
    CASE c \in {"1", "2", "7"} -> "GET"
      [] c \in {"3", "6"} -> "POST"
      [] c = "4" -> "DELETE"
      [] c = "5" -> "PATCH"
TablePath(c, typed) ==
    CASE c \in {"1", "3"} -> <<"/", "categories">>
      [] c \in {"2", "4", "5"} -> <<"/", "categories", "/", typed[1]>>
      [] c \in {"6", "7"} -> <<"/", "categories", "/", typed[1], "/", "products">>
TablePayload(c, typed) ==
    CASE c = "3" -> Some([title |-> typed[1], description |-> typed[2]])
      [] c = "5" -> Some([title |-> typed[2]])
      [] c = "6" -> Some([name |-> typed[2], price |-> float(typed[3]).value, description |-> typed[4]])
      [] OTHER -> None
\* The URL of an absolute path on the service: the base URL's origin, then the path.
OnService(path) == <<BASE_URL[1]>> \o path

-----------------------------------------------------------------------------
(* Claims *)

\* C1: in every catalog operation the body is JSON-decoded only when the
\* response indicates success (a 2xx status); on a failure status the
\* operation prints an error line holding the status code, decodes nothing
\* and presents nothing.
C1_DecodeOnlyOnSuccess ==
    response.some =>
        LET status == response.v.status_code IN
        /\ decoded => Success(status)
        /\ ~Success(status) => (PrintedErrorLine(status) /\ ~decoded /\ presented = <<>>)

\* C2: an operation takes its success branch iff the status code is 2xx;
\* every other status code takes the failure branch, which prints that
\* status code.
C2_SuccessIffStatus2xx ==
    response.some =>
        LET status == response.v.status_code IN
        OnlyErrorLine(status) <=> ~Success(status)

\* C3: the loop ends only by the selection '0', whatever is typed and
\* whatever the transport returns, and the selection '0' always ends it.
C3_ExitOnlyByZero ==
    /\ pc # "menu" => (pc = "exited" /\ choice = Some("0"))
    /\ choice = Some("0") => pc = "exited"

\* C4: on a failure response (any status that is not 2xx) the operation
\* prints exactly one error line holding the status code, raises nothing,
\* and the loop is back at the menu prompt, ready for the next selection.
C4_FailureReportedAndLoopContinues ==
    (response.some /\ ~Success(response.v.status_code)) =>
        /\ OnlyErrorLine(response.v.status_code)
        /\ exc = "none"
        /\ pc = "menu"
        /\ ENABLED Next

\* C5: menu choice k calls the k-th operation with the values typed, and the
\* operation sends exactly one request, with the method, the path on the
\* service and the payload of the operations table.
C5_RequestsFollowTable ==
    (choice.some /\ choice.v \in MenuChoices \ {"0"} /\ exc # "ValueError") =>
        calls = <<[method |-> TableMethod(choice.v),
                   url |-> OnService(TablePath(choice.v, inputs)),
                   json |-> TablePayload(choice.v, inputs)]>>

\* C6: for m in GET, POST, PATCH, DELETE the request create_request(url, m,
\* data) returns sends with method m to url, and carries a payload iff m is
\* POST or PATCH and data was supplied; the payload carried is data.
C6_FactoryBuildsMethodAndPayload ==
    (request.some /\ sent.some /\ request.v.method \in {"GET", "POST", "PATCH", "DELETE"}) =>
        /\ sent.v.raised = "none"
        /\ sent.v.call.method = request.v.method
        /\ sent.v.call.url = request.v.url
        /\ sent.v.call.json.some <=> (request.v.method \in {"POST", "PATCH"} /\ request.v.data.some)
        /\ sent.v.call.json.some => sent.v.call.json = request.v.data
C6_Witness ==
    /\ request.some /\ sent.some
    /\ request.v.method = "GET" /\ request.v.data.some
    /\ sent.v.raised = "none" /\ sent.v.call.json = None

\* The listeners of the attachments in force, oldest attachment first.
InAttachmentOrder(as) ==
    LET n == Cardinality(as)
        byAge == CHOOSE f \in [1..n -> as] : \A i, j \in 1..n : i < j => f[i].n < f[j].n
    IN  [i \in 1..n |-> byAge[i].l]

\* C7: notify(category) calls update(category) on the listeners attached at
\* that moment, once for each attachment in force, oldest attachment first,
\* and on no other listener.
C7_NotifyReachesAttachedInOrder ==
    (obsCall.some /\ obsCall.v.op = "notify" /\ "title" \in DOMAIN obsCall.v.arg) =>
        /\ [i \in 1..Len(updates) |-> updates[i].observer] = InAttachmentOrder(live)
        /\ \A i \in 1..Len(updates) : updates[i].category = obsCall.v.arg
        /\ obsExc = "none"
C7_Witness ==
    /\ obsCall.some /\ obsCall.v.op = "notify"
    /\ nattach = 3
    /\ [i \in 1..Len(updates) |-> updates[i].observer] = <<"b", "a">>
    /\ obsExc = "none"

\* C8: detach of a listener that is not attached raises ValueError or does
\* nothing, and leaves the list of attached listeners as it was.
C8_DetachOfAbsentKeepsList ==
    [][(obsCall'.some /\ obsCall'.v.op = "detach" /\ obsCall'.v.arg \notin Range(observers)) =>
           /\ observers' = observers
           /\ live' = live
           /\ obsExc' \in {"none", "ValueError"}]_vars
C8_Witness ==
    /\ obsCall.some /\ obsCall.v.op = "detach"
    /\ obsExc = "ValueError"
    /\ observers = <<"a", "a">>
    /\ obsCall.v.arg = "b"

\* The records of the operation at menu position c, as the data model has them.
IsRecordOf(c, item) ==
    /\ item.t = "object"
    /\ IF c = "1" THEN DOMAIN item.obj = {"id", "title", "description"}
       ELSE DOMAIN item.obj = {"id", "name", "price", "description"}
\* title (name) and ID (and price) on one line, the description on the next
IsPresentation(c, item, first, second) ==
    /\ second = Line(<<item.obj.description>>)
    /\ ToString(item.obj.id) \in Range(first)
    /\ IF c = "1" THEN item.obj.title \in Range(first)
       ELSE item.obj.name \in Range(first) /\ ToString(item.obj.price) \in Range(first)

\* C9: on a success response whose body decodes to n records, list
\* categories and list products present those n records, each once, in
\* order, each followed by one blank line, and print no error line; for
\* n = 0 they print nothing.
C9_ListsPresentEveryRecordInOrder ==
    (/\ choice.some /\ choice.v \in {"1", "7"}
     /\ response.some /\ Success(response.v.status_code)
     /\ response.v.content.t = "array"
     /\ \A i \in 1..Len(response.v.content.items) : IsRecordOf(choice.v, response.v.content.items[i])) =>
        LET items == response.v.content.items IN
        /\ exc = "none" /\ pc = "menu"
        /\ presented = items
        /\ Len(out) = 3 * Len(items)
        /\ \A i \in 1..Len(items) :
              /\ IsPresentation(choice.v, items[i], out[3 * i - 2], out[3 * i - 1])
              /\ out[3 * i] = Blank
C9_Witness ==
    /\ choice = Some("7")
    /\ response.some /\ Success(response.v.status_code)
    /\ Len(presented) = 2 /\ presented[1] # presented[2]
    /\ presented = response.v.content.items
    /\ Len(out) = 6

\* C10: a selection other than '0'..'7' prints the invalid-choice message,
\* prompts for nothing, sends nothing and leaves the loop at the menu prompt.
C10_InvalidChoiceIsNoOp ==
    (choice.some /\ choice.v \notin MenuChoices) =>
        /\ out = <<Line(<<"Invalid choice. Please try again.">>)>>
        /\ prompts = <<>> /\ inputs = <<>>
        /\ calls = <<>> /\ response = None
        /\ exc = "none"
        /\ pc = "menu"
C10_Witness ==
    /\ choice = Some("1 ")
    /\ out = <<Line(<<"Invalid choice. Please try again.">>)>>
    /\ pc = "menu"

====
